---- MODULE Spec2Model ----
(***************************************************************************)
(* A model of the LuxuryChristmasTree scene: the particle transition       *)
(* engine (components/LuxuryTree.tsx), the gesture classifier              *)
(* (components/HandController.tsx) and the host application with its       *)
(* photo focus session (App.tsx).                                          *)
(*                                                                         *)
(* Numbers.  JavaScript numbers are modelled in fixed point, rounded to    *)
(* the nearest unit the way IEEE arithmetic rounds to the nearest          *)
(* representable value:                                                    *)
(*   - the transition value, the focus progress and every interpolation    *)
(*     factor are in hundredths (100 is 1.0);                              *)
(*   - coordinates, heights and snow growth are in hundredths of a length  *)
(*     unit (250 is 2.5);                                                  *)
(*   - frame deltas and wall-clock times are in milliseconds.              *)
(***************************************************************************)
EXTENDS Integers, Sequences, FiniteSets, TLC

VARIABLES
    \* ---- LuxuryTree ----
    treeState,      \* App: useState<TreeState>  "CHAOS" | "FORMED"
    transition,     \* LuxuryTree: useState(0), hundredths
    particles,      \* LuxuryTree: useMemo(() => ..., []) result, fixed at mount
    growth,         \* particles.snowBase.growth (the aGrowth attribute array)
    livePos,        \* the four position attribute arrays written by useFrame
    \* ---- App, Scene and FocusedPhoto ----
    photos,             \* App: useState<string[]>([])
    focusedPhoto,       \* App: useState<string | null>(null), as last rendered
    pendingFocus,       \* the setFocusedPhoto update not yet rendered: <<>> or <<value>>
    progress,           \* FocusedPhoto: useState(0), hundredths
    isClosing,          \* FocusedPhoto: useState(false)
    rotationY,          \* rotationGroupRef.current.rotation.y, hundredths of a radian
    rotationVelocity,   \* useRef<number>(0), hundredths of a radian per second
    zoomTarget,         \* useRef<number>(20), hundredths
    dismissCalls,       \* observer: onDismiss invocations of the current session
    dismissRequested,   \* observer: a dismiss was requested during the current session
    \* ---- HandController ----
    lastXRef,           \* useRef<number | null>(null), hundredths
    lastYRef,           \* useRef<number | null>(null), hundredths
    isPinchingRef,      \* useRef<boolean>(false)
    lastPinchTimeRef,   \* useRef<number>(0), ms
    dualOpenFramesRef,  \* useRef<number>(0)
    fistStateFramesRef, \* useRef<number>(0)
    now,                \* the wall clock Date.now() reads, ms
    emitted,            \* the callback props the last processed frame invoked, in order
    \* ---- HandController: the effect that starts and stops detection ----
    isMounted,          \* let isMounted = true, false after the cleanup
    initStep,           \* where initLandmarker / setupCamera is waiting
    landmarkerRef,      \* landmarkerRef.current is set
    videoRef,           \* videoRef.current (and canvasRef.current) is attached
    streamRef,          \* streamRef.current is set
    tracksLive,         \* the acquired stream has tracks that are not stopped
    rafPending,         \* a requestAnimationFrame(predict) callback is pending
    \* ---- the scene: decorative ornaments, canvas size, decoded images ----
    ornaments,          \* LuxuryTree: useMemo(() => ..., []) list of positions
    size,               \* useThree().size: <<width, height>> in pixels
    image,              \* texture.image of each url: <<width, height>> in pixels
    previousOrnaments,  \* observer: the ornaments of the previous mount, else <<>>
    \* ---- history of the gesture stream (observers, not program state) ----
    fistRun,            \* consecutive processed frames showing one hand as a fist
    formsInRun,         \* form-tree events emitted during that run
    dualRun,            \* consecutive processed frames showing two open hands
    lastFrame,          \* the frame processed last: <<hands>>, <<>> before the first
    lastStart,          \* the latest pinch-start transition: [time, event]
    cleared             \* after a frame without hands: <<the refs it found>>, else <<>>

treeVars == <<treeState, transition, particles, growth, livePos>>

handVars == <<lastXRef, lastYRef, isPinchingRef, lastPinchTimeRef,
              dualOpenFramesRef, fistStateFramesRef, now, emitted>>

histVars == <<fistRun, formsInRun, dualRun, lastFrame, lastStart, cleared>>

loopVars == <<isMounted, initStep, landmarkerRef, videoRef, streamRef, tracksLive,
              rafPending>>

appVars == <<photos, focusedPhoto, pendingFocus, progress, isClosing,
             rotationY, rotationVelocity, zoomTarget, dismissCalls,
             dismissRequested>>

sceneVars == <<ornaments, size, image, previousOrnaments>>

vars == <<treeVars, handVars, histVars, appVars, loopVars, sceneVars>>

\* Everything but the transition engine's state.
notTree == <<handVars, histVars, appVars, loopVars, sceneVars>>

\* Everything but the gesture classifier's state and its observers.
notHand == <<treeVars, appVars, loopVars, sceneVars>>

\* Everything but the application's state.
notApp == <<transition, particles, growth, livePos, lastXRef, lastYRef,
            isPinchingRef, lastPinchTimeRef, dualOpenFramesRef,
            fistStateFramesRef, now, histVars, loopVars, sceneVars>>

-----------------------------------------------------------------------------
(* Arithmetic helpers *)

Abs(n) == IF n < 0 THEN -n ELSE n

Min(a, b) == IF a < b THEN a ELSE b

Max(a, b) == IF a > b THEN a ELSE b

\* n / d rounded to the nearest integer (d > 0), halves upwards.
RoundDiv(n, d) == (2 * n + d) \div (2 * d)

\* lerp with its end points exchanged.
lerp_swapped(x, y, t) == RoundDiv((100 - t) * y + t * x, 100)

\* THREE.MathUtils.lerp(x, y, t) = (1 - t) * x + t * y, t in hundredths.
\* Nothing clamps t: a factor above 100 extrapolates past y.
lerp(x, y, t) == RoundDiv((100 - t) * x + t * y, 100)

\* Frame deltas the render loop can report (ms).  The clock's delta is the
\* wall-clock time since the previous frame and is not capped.
MaxDeltaSteps == 4

Deltas == {200 * k : k \in 1..MaxDeltaSteps}

-----------------------------------------------------------------------------
(* Ornament placement *)

\* Math.sin and Math.cos in fixed point: the argument and the result in
\* thousandths, by the power series on the argument reduced to [-pi, pi].
Pi == 3142

reduceAngle(x) == ((x + Pi) % (2 * Pi)) - Pi

RECURSIVE series(_, _, _, _)
series(x, term, k, acc) ==
    IF k > 19 \/ term = 0 THEN acc
    ELSE LET next == -RoundDiv(RoundDiv(RoundDiv(term * x, 1000) * x, 1000),
                               (k + 1) * (k + 2))
         IN  series(x, next, k + 2, acc + next)

Sin(x) == LET r == reduceAngle(x) IN series(r, r, 1, r)

Cos(x) == LET r == reduceAngle(x) IN series(r, 1000, 0, 1000)

\* TREE_PARAMS: HEIGHT 12 (the factor from hundredths of the height to
\* hundredths of a unit), BASE_RADIUS 4.5 (thousandths).
HEIGHT == 12

BASE_RADIUS == 4500

\* Math.pow(b, 0.85) for the bases (hundredths) the placements below use;
\* the result in thousandths.
pow085(b) ==
    CASE b = 75 -> 783
      [] b = 63 -> 675
      [] b = 51 -> 564
      [] b = 39 -> 449
      [] OTHER  -> 329

\* TREE_RADIUS_FACTOR(h) = BASE_RADIUS * Math.pow(1 - h, 0.85) * 1.1, h in
\* hundredths, the result in thousandths.
TREE_RADIUS_FACTOR(h) == RoundDiv(RoundDiv(BASE_RADIUS * pow085(100 - h), 1000) * 11, 10)

\* angle = (index * 1.5) + Math.PI, thousandths of a radian.
photoAngle(index) == index * 1500 + Pi

\* h = 0.25 + (index * 0.12) % 0.55, hundredths.
photoHeight(index) == 25 + ((index * 12) % 55)

\* [Math.cos(angle) * r, h * HEIGHT, Math.sin(angle) * r], hundredths.
polar(angle, r, h) ==
    <<RoundDiv(Cos(angle) * r, 10000), h * HEIGHT, RoundDiv(Sin(angle) * r, 10000)>>

\* PhotoOrnament: the position a photo ornament is rendered at, with the
\* radius factor of the decorative ornaments.
PhotoOrnamentPosition_decorative(index) ==
    LET h == photoHeight(index)
    IN  polar(photoAngle(index), RoundDiv(TREE_RADIUS_FACTOR(h) * 98, 110), h)

\* PhotoOrnament: the position a photo ornament is rendered at.
PhotoOrnamentPosition(index) ==
    LET h == photoHeight(index)
    IN  polar(photoAngle(index), TREE_RADIUS_FACTOR(h), h)

\* FocusedPhoto: the local position its flight starts from.
startLocal(index) ==
    LET h == photoHeight(index)
    IN  polar(photoAngle(index), TREE_RADIUS_FACTOR(h), h)

\* handlePinchFocus: the local position of the photo at a list index
\* (0-based) that the selection measures.
ornamentLocal(index) ==
    LET h == photoHeight(index)
    IN  polar(photoAngle(index), TREE_RADIUS_FACTOR(h), h)

\* The decorative ornament the mount places from its two Math.random()
\* draws: hPct = 0.1 + random * 0.85 (hundredths) and angle = random * 2 pi
\* (thousandths); baseR = BASE_RADIUS * Math.pow(1 - hPct, 0.85), r = baseR * 0.98.
decorativePosition(hPct, angle) ==
    polar(angle, RoundDiv(RoundDiv(BASE_RADIUS * pow085(100 - hPct), 1000) * 98, 100), hPct)

-----------------------------------------------------------------------------
(* HandController: state at mount *)

\* null in a number | null ref: a value no coordinate or time takes.
NULL == -1

\* No callback.
EvNone == <<"none">>

STABILITY_THRESHOLD == 6

\* Date.now() when the controller mounts.  lastPinchTimeRef starts at 0 and
\* the epoch clock is far beyond the double-pinch window.
MountTime == 1500

\* The clock is observed up to this time.
MaxTime == 2100

\* The longest run of fist frames that is observed.
MaxRun == 8

HandMounted ==
    /\ lastXRef = NULL
    /\ lastYRef = NULL
    /\ isPinchingRef = FALSE
    /\ lastPinchTimeRef = 0
    /\ dualOpenFramesRef = 0
    /\ fistStateFramesRef = 0
    /\ now = MountTime
    /\ emitted = <<>>
    /\ fistRun = 0
    /\ formsInRun = 0
    /\ dualRun = 0
    /\ lastFrame = <<>>
    /\ lastStart = [time |-> NULL, event |-> EvNone]
    /\ cleared = <<>>

\* The effect has just run: initLandmarker() is waiting for the vision files.
LoopMounted ==
    /\ isMounted = TRUE
    /\ initStep = "vision"
    /\ landmarkerRef = FALSE
    /\ videoRef = TRUE
    /\ streamRef = FALSE
    /\ tracksLive = FALSE
    /\ rafPending = FALSE

\* The camera is playing and the first predict is scheduled.
LoopRunning ==
    /\ isMounted = TRUE
    /\ initStep = "done"
    /\ landmarkerRef = TRUE
    /\ videoRef = TRUE
    /\ streamRef = TRUE
    /\ tracksLive = TRUE
    /\ rafPending = TRUE

\* null in a string-valued state.
NoPhoto == "null"

\* App after its first render: the useState and useRef initial values.
AppMounted ==
    /\ photos = <<>>
    /\ focusedPhoto = NoPhoto
    /\ pendingFocus = <<>>
    /\ progress = 0
    /\ isClosing = FALSE
    /\ rotationY = 0
    /\ rotationVelocity = 0
    /\ zoomTarget = 2000
    /\ dismissCalls = 0
    /\ dismissRequested = FALSE

\* Outcomes of the two Math.random() draws of one decorative ornament:
\* <<hPct, angle>>, hPct in [0.1, 0.95) and angle in [0, 2 pi).
DecorativeDraws == {<<25, 0>>, <<49, 1571>>}

\* const count = 300, reduced.
OrnamentCount == 1

\* The lists the loop over count can produce.
OrnamentLists ==
    {[i \in 1..OrnamentCount |-> decorativePosition(d[i][1], d[i][2])] :
        d \in [1..OrnamentCount -> DecorativeDraws]}

\* Canvas sizes: a landscape and a portrait window.
Sizes == {<<1920, 1080>>, <<390, 844>>}

\* Decoded image sizes: square, wide, tall, and one whose width reads as 0.
Images == {<<100, 100>>, <<160, 90>>, <<90, 160>>, <<0, 0>>}

\* The object URLs of the uploaded files.
Urls == {"a.jpg", "b.jpg"}

\* The scene after the first render: the decorative ornaments as generated,
\* the canvas at its size, each url decoding to its image.
SceneMounted(lists, sizes, images) ==
    /\ ornaments \in lists
    /\ size \in sizes
    /\ image \in [Urls -> images]
    /\ previousOrnaments = <<>>

\* One scene, for the specifications that are not about it.
SceneFixed ==
    SceneMounted({[i \in 1..OrnamentCount |-> decorativePosition(25, 0)]},
                 {<<1920, 1080>>}, {<<100, 100>>})

-----------------------------------------------------------------------------
(* LuxuryTree: particle generation (useMemo, once per mount) *)

\* Outcomes of the randomised generation, one particle per group.  Each
\* respects the generator's ranges: foliage chaos on the shell of radius
\* 12..20 around (0, 6, 0), trunk chaos on the cylinder of radius 5..7, ribbon
\* chaos at radius 10..14, snow on the disk of radius 18 at height -2.5 with
\* snow chaos at radius 15..25 and height -18..-13.  variation is the
\* topoHeight of the snow particle's (x, z).
GenerationA ==
      [ foliage  |-> [pos   |-> << <<120, 600, -90>> >>,
                      chaos |-> << <<900, 1500, 800>> >>],
        trunk    |-> [pos   |-> << <<20, 40, -15>> >>,
                      chaos |-> << <<-500, 300, 330>> >>],
        ribbon   |-> [pos   |-> << <<310, 300, 250>> >>,
                      chaos |-> << <<-1100, -200, 400>> >>],
        snowBase |-> [pos   |-> << <<300, -250, 400>> >>,
                      chaos |-> << <<1600, -1500, -900>> >>,
                      variation |-> <<93>>] ]

GenerationB ==
      [ foliage  |-> [pos   |-> << <<-40, 1080, 30>> >>,
                      chaos |-> << <<-1300, 200, 600>> >>],
        trunk    |-> [pos   |-> << <<95, -100, 180>> >>,
                      chaos |-> << <<600, -550, -200>> >>],
        ribbon   |-> [pos   |-> << <<-60, 1100, 140>> >>,
                      chaos |-> << <<1200, 1400, -500>> >>],
        snowBase |-> [pos   |-> << <<-800, -250, 600>> >>,
                      chaos |-> << <<-2000, -1700, 1000>> >>,
                      variation |-> <<-102>>] ]

\* GenerationA with its snow particle at (-5.94, 1.67), where the topoHeight
\* (-1.83) makes the maximum drift height the lowest on the disk.
GenerationC ==
      [GenerationA EXCEPT !.snowBase =
          [pos   |-> << <<-594, -250, 167>> >>,
           chaos |-> << <<1600, -1500, -900>> >>,
           variation |-> <<-183>>]]

Generations == {GenerationA, GenerationB, GenerationC}

Groups == {"foliage", "trunk", "ribbon", "snowBase"}

\* PARTICLE_COUNTS of a group in the model: the length of its arrays.
Count(g) == Len(particles[g].pos)

\* floor(sqrt(n)) by bisection: lo * lo <= n < hi * hi.
RECURSIVE SqrtBetween(_, _, _)
SqrtBetween(n, lo, hi) ==
    IF hi - lo <= 1 THEN lo
    ELSE LET mid == (lo + hi) \div 2
         IN  IF mid * mid <= n THEN SqrtBetween(n, mid, hi)
                               ELSE SqrtBetween(n, lo, mid)

\* Math.sqrt on hundredths: sqrt(x*x + z*z) rounded to the nearest unit.
Hypot(x, z) ==
    LET n == x * x + z * z
        k == SqrtBetween(n, 0, Abs(x) + Abs(z) + 1)
    IN  IF n - k * k > (k + 1) * (k + 1) - n THEN k + 1 ELSE k

\* useFrame: proximityFactor = max(0, 1.0 - r / 20.0), hundredths.
proximityFactor(i) ==
    LET p == particles.snowBase.pos[i]
    IN  Max(0, 100 - RoundDiv(Hypot(p[1], p[3]), 20))

\* useFrame: driftMaxHeight = (variation[i] + 1.5) * proximityFactor + 0.5
driftMaxHeight(i) ==
    RoundDiv((particles.snowBase.variation[i] + 150) * proximityFactor(i), 100) + 50

\* Componentwise lerp of a chaos triple towards a formed triple.
lerp3(c, f, t) == <<lerp(c[1], f[1], t), lerp(c[2], f[2], t), lerp(c[3], f[3], t)>>

\* Snow base: the y component interpolates towards pos.y + growth.
snowLive(i, g, t) ==
    LET c == particles.snowBase.chaos[i]
        f == particles.snowBase.pos[i]
    IN  <<lerp(c[1], f[1], t), lerp(c[2], f[2] + g, t), lerp(c[3], f[3], t)>>

\* The position attribute arrays as the JSX creates them: all zeros.
ZeroArrays ==
    [g \in Groups |-> [i \in 1..Count(g) |-> <<0, 0, 0>>]]

\* LuxuryTree after mount, the generation having drawn one of gens.
TreeMounted(gens) ==
    /\ treeState = "CHAOS"
    /\ transition = 0
    /\ particles \in gens
    /\ growth = [i \in 1..Len(particles.snowBase.pos) |-> 0]
    /\ livePos = ZeroArrays

InitTree ==
    /\ TreeMounted(Generations)
    /\ SceneFixed
    /\ HandMounted
    /\ LoopRunning
    /\ AppMounted

-----------------------------------------------------------------------------
(* LuxuryTree: operations *)

\* App.toggleTree (the overlay button)
toggleTree ==
    /\ treeState' = (IF treeState = "CHAOS" THEN "FORMED" ELSE "CHAOS")
    /\ UNCHANGED <<transition, particles, growth, livePos>>
    /\ UNCHANGED notTree

\* target = state === TreeState.FORMED ? 1 : 0
target(st) == IF st = "FORMED" THEN 100 ELSE 0

\* newTransition = lerp(transition, target, delta * 1.5)
newTransition(delta) ==
    lerp(transition, target(treeState), (delta * 15) \div 100)

\* The growth step without the test of the transition: the snow grows in
\* every frame whose random roll is below 0.02.
nextGrowth_always(i, nt, delta, roll) ==
    IF roll
    THEN Min(driftMaxHeight(i), growth[i] + (delta * 8) \div 100)
    ELSE growth[i]

\* growthArr[i] = min(driftMaxHeight, growthArr[i] + delta * 0.8), when the
\* transition exceeds 0.7 and the particle's random roll is below 0.02.
nextGrowth(i, nt, delta, roll) ==
    IF nt > 70 /\ roll
    THEN Min(driftMaxHeight(i), growth[i] + (delta * 8) \div 100)
    ELSE growth[i]

\* The live arrays one frame writes for transition nt and growth array gr.
frameWrite(nt, gr) ==
    [g \in Groups |->
        [i \in 1..Count(g) |->
            IF g = "snowBase"
            THEN snowLive(i, gr[i], nt)
            ELSE lerp3(particles[g].chaos[i], particles[g].pos[i], nt)]]

\* A render frame that also generates the particle arrays anew.
LuxuryTreeFrame_regenerate ==
    \E delta \in Deltas :
    \E rolls \in [1..Count("snowBase") -> BOOLEAN] :
        LET nt == newTransition(delta)
            gr == [i \in 1..Count("snowBase") |-> nextGrowth(i, nt, delta, rolls[i])]
        IN  /\ transition' = nt
            /\ growth' = gr
            /\ livePos' = frameWrite(nt, gr)
            /\ particles' \in Generations
            /\ UNCHANGED treeState
            /\ UNCHANGED notTree

\* LuxuryTree useFrame((stateClock, delta) => ...): one render frame.
\* rolls[i] is the outcome of Math.random() < 0.02 for snow particle i.
LuxuryTreeFrame ==
    \E delta \in Deltas :
    \E rolls \in [1..Count("snowBase") -> BOOLEAN] :
        LET nt == newTransition(delta)
            gr == [i \in 1..Count("snowBase") |-> nextGrowth(i, nt, delta, rolls[i])]
        IN  /\ transition' = nt
            /\ growth' = gr
            /\ livePos' = frameWrite(nt, gr)
            /\ UNCHANGED <<treeState, particles>>
            /\ UNCHANGED notTree

NextTree ==
    \/ toggleTree
    \/ LuxuryTreeFrame

SpecTree == InitTree /\ [][NextTree]_vars

-----------------------------------------------------------------------------
(* HandController: processGestures *)

\* A detected hand is given by what the classifiers read from its
\* landmarks: the wrist (landmark 0), the distance of each finger tip (8, 12,
\* 16, 20) to the wrist, and the distance between thumb tip (4) and index
\* tip (8).  Coordinates are normalised to the image: hundredths.
Tips == {8, 12, 16, 20}

Hand(wrist, d8, d12, d16, d20, pinch) ==
    [wrist |-> wrist,
     tipDist |-> [t \in Tips |-> CASE t = 8 -> d8 [] t = 12 -> d12
                                   [] t = 16 -> d16 [] OTHER -> d20],
     pinchDist |-> pinch,
     count |-> 21]

\* A hand of which the detector delivered only the first five landmarks
\* (the wrist and the thumb).
Truncated(h) == [h EXCEPT !.count = 5]

\* Reading h[i].x of a landmark that is not there throws a TypeError.
missing(h, i) == i >= h.count

\* tips.every(tip => dist(h[tip], wrist) < 0.14)
isFist(h) == \A t \in Tips : h.tipDist[t] < 14

\* tips.every(tip => dist(h[tip], wrist) > 0.18)
isOpen(h) == \A t \in Tips : h.tipDist[t] > 18

\* indexDist > 0.22 && others.every(tip => dist(h[tip], wrist) < 0.16)
isPointing(h) ==
    /\ h.tipDist[8] > 22
    /\ \A t \in {12, 16, 20} : h.tipDist[t] < 16

\* sqrt((h[4].x - h[8].x)^2 + (h[4].y - h[8].y)^2)
getPinchDist(h) == h.pinchDist

\* Callback invocations, as the classifier emits them.
EvChaos == <<"onGestureChaos">>
EvForm == <<"onGestureForm">>
EvPinch == <<"onPinch">>
EvDoublePinch == <<"onDoublePinch">>
EvDrag(dx) == <<"onDrag", dx>>
EvZoom(dy) == <<"onZoom", dy>>

\* The no-hands branch that leaves the stability counters as they are.
noHands_keepCounters ==
    /\ isPinchingRef' = FALSE
    /\ lastXRef' = NULL
    /\ lastYRef' = NULL
    /\ emitted' = <<>>
    /\ UNCHANGED <<lastPinchTimeRef, dualOpenFramesRef, fistStateFramesRef>>

\* The branch for results.landmarks empty: everything is reset.
noHands ==
    /\ isPinchingRef' = FALSE
    /\ lastXRef' = NULL
    /\ lastYRef' = NULL
    /\ dualOpenFramesRef' = 0
    /\ fistStateFramesRef' = 0
    /\ emitted' = <<>>
    /\ UNCHANGED lastPinchTimeRef

\* The dual-hand branch that leaves the reference position as it is.
dualHands_keepReference(hands) ==
    LET bothOpen == isOpen(hands[1]) /\ isOpen(hands[2])
        n == dualOpenFramesRef + 1
    IN  /\ dualOpenFramesRef' =
              (IF bothOpen THEN (IF n > STABILITY_THRESHOLD THEN 0 ELSE n) ELSE 0)
        /\ emitted' =
              (IF bothOpen /\ n > STABILITY_THRESHOLD THEN <<EvChaos>> ELSE <<>>)
        /\ isPinchingRef' = FALSE
        /\ UNCHANGED <<lastXRef, lastYRef, lastPinchTimeRef, fistStateFramesRef>>

\* 1. Dual Hand Logic: CHAOS (Priority).  Returns before the single-hand
\* logic: lastYRef and fistStateFramesRef are left as they are.
dualHands(hands) ==
    LET bothOpen == isOpen(hands[1]) /\ isOpen(hands[2])
        n == dualOpenFramesRef + 1
    IN  /\ dualOpenFramesRef' =
              (IF bothOpen THEN (IF n > STABILITY_THRESHOLD THEN 0 ELSE n) ELSE 0)
        /\ emitted' =
              (IF bothOpen /\ n > STABILITY_THRESHOLD THEN <<EvChaos>> ELSE <<>>)
        /\ lastXRef' = NULL
        /\ isPinchingRef' = FALSE
        /\ UNCHANGED <<lastYRef, lastPinchTimeRef, fistStateFramesRef>>

\* The drag / zoom callbacks of a single-hand frame (lines 170-185), the
\* arguments in thousandths: onDrag(-dx), onZoom(dy * 1.5).
navEvents(hand, pinchingNow, pointingNow) ==
    IF lastXRef # NULL /\ lastYRef # NULL
    THEN LET dx == hand.wrist[1] - lastXRef
             dy == hand.wrist[2] - lastYRef
         IN  IF pinchingNow THEN <<>>
             ELSE IF pointingNow THEN <<EvDrag(-dx * 10)>>
             ELSE IF isOpen(hand) /\ 10 * Abs(dy) > 15 * Abs(dx)
                  THEN <<EvZoom(dy * 15)>>
                  ELSE <<>>
    ELSE <<>>

\* Pinch Start Event (lines 187-197): whether this frame starts a pinch.
pinchStart(pinchingNow) == pinchingNow /\ ~isPinchingRef

\* A double-pinch window of 250 ms.
isDoublePinch_narrow == now - lastPinchTimeRef < 250

\* now - lastPinchTimeRef.current < 450
isDoublePinch == now - lastPinchTimeRef < 450

pinchEvents(pinchingNow) ==
    IF pinchStart(pinchingNow)
    THEN (IF isDoublePinch THEN <<EvDoublePinch>> ELSE <<EvPinch>>)
    ELSE <<>>

\* fistStateFramesRef.current > STABILITY_THRESHOLD
fistStable(n) == n > STABILITY_THRESHOLD

\* 2. Single Hand Logic
singleHand(hand) ==
    LET pinchingNow == getPinchDist(hand) < 10
        pointingNow == ~pinchingNow /\ isPointing(hand)
        fistNow == isFist(hand)
        n == fistStateFramesRef + 1
    IN  /\ emitted' = navEvents(hand, pinchingNow, pointingNow)
                        \o pinchEvents(pinchingNow)
                        \o (IF fistNow /\ fistStable(n) THEN <<EvForm>> ELSE <<>>)
        /\ lastPinchTimeRef' =
              (IF pinchStart(pinchingNow)
               THEN (IF isDoublePinch THEN 0 ELSE now)
               ELSE lastPinchTimeRef)
        /\ fistStateFramesRef' =
              (IF fistNow THEN (IF fistStable(n) THEN 0 ELSE n) ELSE 0)
        /\ lastXRef' = hand.wrist[1]
        /\ lastYRef' = hand.wrist[2]
        /\ isPinchingRef' = pinchingNow
        /\ UNCHANGED dualOpenFramesRef

\* processGestures(results), results.landmarks = hands (a sequence of 0, 1
\* or 2 hands: the landmarker runs with numHands: 2).
processGestures(hands) ==
    /\ IF Len(hands) = 0 THEN noHands
       ELSE IF Len(hands) = 2 THEN dualHands(hands)
       ELSE singleHand(hands[1])
    /\ UNCHANGED now

\* The observers of the gesture stream.
observe(hands) ==
    LET oneFist == Len(hands) = 1 /\ isFist(hands[1])
        twoOpen == Len(hands) = 2 /\ isOpen(hands[1]) /\ isOpen(hands[2])
        forms == Len(SelectSeq(emitted', LAMBDA e : e = EvForm))
        starts == SelectSeq(emitted', LAMBDA e : e \in {EvPinch, EvDoublePinch})
    IN  /\ fistRun' = (IF oneFist THEN fistRun + 1 ELSE 0)
        /\ formsInRun' = (IF oneFist THEN formsInRun + forms ELSE 0)
        /\ dualRun' = (IF twoOpen THEN dualRun + 1 ELSE 0)
        /\ lastFrame' = <<hands>>
        /\ lastStart' = (IF Len(starts) > 0
                         THEN [time |-> now, event |-> starts[1]]
                         ELSE lastStart)
        /\ cleared' = (IF Len(hands) = 0
                       THEN <<[fist |-> fistStateFramesRef, dual |-> dualOpenFramesRef,
                               pinching |-> isPinchingRef, x |-> lastXRef, y |-> lastYRef]>>
                       ELSE <<>>)

\* The wall clock advances between frames.
Tick ==
    /\ now + 150 <= MaxTime
    /\ now' = now + 150
    /\ UNCHANGED <<lastXRef, lastYRef, isPinchingRef, lastPinchTimeRef,
                   dualOpenFramesRef, fistStateFramesRef, emitted>>
    /\ UNCHANGED histVars
    /\ UNCHANGED notHand

-----------------------------------------------------------------------------
(* App: the photo ornaments and the camera *)

\* worldPos.applyMatrix4(rotationGroupRef.current.matrixWorld): the group is
\* rotated about the y axis by rotation.y (rot, hundredths of a radian).
applyMatrixWorld(v, rot) ==
    LET c == Cos(rot * 10)
        sn == Sin(rot * 10)
    IN  <<RoundDiv(v[1] * c + v[3] * sn, 1000), v[2],
          RoundDiv(v[3] * c - v[1] * sn, 1000)>>

\* <PerspectiveCamera makeDefault position={[0, 5, 20]} />
cameraPosition == <<0, 500, 2000>>

\* worldPos.distanceTo(camera.position), squared (the order is the same).
distanceToSquared(v, w) ==
    (v[1] - w[1]) * (v[1] - w[1]) + (v[2] - w[2]) * (v[2] - w[2])
        + (v[3] - w[3]) * (v[3] - w[3])

ornamentDist(index, rot) ==
    distanceToSquared(applyMatrixWorld(ornamentLocal(index), rot), cameraPosition)

\* photos.forEach with if (dist < minDist): the first index (1-based here)
\* of minimal distance.
nearestIndex(list, rot) ==
    CHOOSE i \in 1..Len(list) :
        /\ \A j \in 1..Len(list) : ornamentDist(i - 1, rot) <= ornamentDist(j - 1, rot)
        /\ \A j \in 1..(i - 1) : ornamentDist(j - 1, rot) > ornamentDist(i - 1, rot)

-----------------------------------------------------------------------------
(* App: the callback props handed to HandController *)

\* What the callbacks can change, threaded through the calls of one frame.
appNow ==
    [treeState |-> treeState, pendingFocus |-> pendingFocus, isClosing |-> isClosing,
     rotationY |-> rotationY, rotationVelocity |-> rotationVelocity,
     zoomTarget |-> zoomTarget]

\* The render whose treeState, focusedPhoto and photos the callbacks close
\* over, were they those of the latest render.
closure_latest ==
    [treeState |-> treeState, focusedPhoto |-> focusedPhoto, photos |-> photos]

\* HandController creates predict in useEffect(..., []) and predict calls the
\* processGestures of that first render, which calls the props of that first
\* render: the callbacks App created in its first render, closing over the
\* useState initial values.
closure ==
    [treeState |-> "CHAOS", focusedPhoto |-> NoPhoto, photos |-> <<>>]

\* A dismiss-photo listener that outlives FocusedPhoto: the closing flag is
\* set whether or not a photo is focused.
dispatchDismiss_always(a) == [a EXCEPT !.isClosing = TRUE]

\* window.dispatchEvent(new Event('dismiss-photo')): the listener exists
\* while FocusedPhoto is mounted and calls setIsClosing(true).
dispatchDismiss(a) ==
    IF focusedPhoto # NoPhoto THEN [a EXCEPT !.isClosing = TRUE] ELSE a

handleDoublePinch(seen, a) ==
    IF seen.focusedPhoto # NoPhoto THEN dispatchDismiss(a) ELSE a

\* handlePinchFocus where an empty list is filled with a sample photo first.
handlePinchFocus_samples(seen, a) ==
    IF seen.focusedPhoto # NoPhoto THEN a
    ELSE LET list == IF Len(seen.photos) = 0 THEN <<"sample">> ELSE seen.photos
         IN  [a EXCEPT !.pendingFocus = <<list[nearestIndex(list, a.rotationY)]>>]

\* cameraRef.current and rotationGroupRef.current are set once mounted.
handlePinchFocus(seen, a) ==
    IF seen.focusedPhoto # NoPhoto \/ Len(seen.photos) = 0 THEN a
    ELSE [a EXCEPT !.pendingFocus =
                      <<seen.photos[nearestIndex(seen.photos, a.rotationY)]>>]

onGestureChaos(seen, a) ==
    IF seen.treeState # "CHAOS" THEN [a EXCEPT !.treeState = "CHAOS"] ELSE a

onGestureForm(seen, a) ==
    IF seen.treeState # "FORMED" THEN [a EXCEPT !.treeState = "FORMED"] ELSE a

\* dx in thousandths: rotation.y += dx * 12, rotationVelocity = dx * 18.
onDrag(seen, a, dx) ==
    IF seen.focusedPhoto = NoPhoto
    THEN [a EXCEPT !.rotationY = @ + RoundDiv(dx * 12, 10),
                   !.rotationVelocity = RoundDiv(dx * 18, 10)]
    ELSE a

\* The zoom handler without the clamp: zoomTarget = zoomTarget + dy * 6.
onZoom_unclamped(seen, a, dy) ==
    IF seen.focusedPhoto = NoPhoto
    THEN [a EXCEPT !.zoomTarget = @ + RoundDiv(dy * 6, 10)]
    ELSE a

\* dy in thousandths: zoomTarget = max(10, min(35, zoomTarget + dy * 6)).
onZoom(seen, a, dy) ==
    IF seen.focusedPhoto = NoPhoto
    THEN [a EXCEPT !.zoomTarget = Max(1000, Min(3500, @ + RoundDiv(dy * 6, 10)))]
    ELSE a

\* One callback invocation.
invoke(e, seen, a) ==
    CASE e = EvChaos       -> onGestureChaos(seen, a)
      [] e = EvForm        -> onGestureForm(seen, a)
      [] e = EvPinch       -> handlePinchFocus(seen, a)
      [] e = EvDoublePinch -> handleDoublePinch(seen, a)
      [] e[1] = "onDrag"   -> onDrag(seen, a, e[2])
      [] OTHER             -> onZoom(seen, a, e[2])

RECURSIVE invokeAll(_, _, _)
invokeAll(es, seen, a) ==
    IF es = <<>> THEN a ELSE invokeAll(Tail(es), seen, invoke(Head(es), seen, a))

\* The tree rotation that is followed.
MaxRotation == 120

\* The callbacks a processed frame invokes, in order, and what they leave.
callbacks(es) ==
    LET a == invokeAll(es, closure, appNow)
    IN  /\ Abs(a.rotationY) <= MaxRotation
        /\ treeState' = a.treeState
        /\ pendingFocus' = a.pendingFocus
        /\ isClosing' = a.isClosing
        /\ rotationY' = a.rotationY
        /\ rotationVelocity' = a.rotationVelocity
        /\ zoomTarget' = a.zoomTarget
        /\ dismissRequested' =
              (dismissRequested
                 \/ (focusedPhoto # NoPhoto /\ \E i \in 1..Len(es) : es[i] = EvDoublePinch))
        /\ UNCHANGED <<photos, focusedPhoto, progress, dismissCalls>>

-----------------------------------------------------------------------------
(* HandController: the frames the camera can show *)

\* Finger-tip distances of three hand shapes: a fist, an open hand, a
\* pointing index finger.
FistTips == <<10, 10, 10, 10>>
OpenTips == <<30, 30, 30, 30>>
PointTips == <<30, 10, 10, 10>>

\* Thumb-to-index distances: pinched and apart.
PinchDists == {5, 20}

HandOf(wrist, tips, pinch) == Hand(wrist, tips[1], tips[2], tips[3], tips[4], pinch)

Wrists == {<<50, 50>>, <<60, 50>>, <<50, 90>>}

TwoHandFrames ==
    { <<HandOf(<<30, 50>>, OpenTips, 20), HandOf(<<70, 50>>, t, 20)>> :
        t \in {OpenTips, FistTips} }

\* processGestures throws where it first reads a missing landmark: in the
\* dual-hand branch isOpen(hands[0]) && isOpen(hands[1]) reads tip 8 of the
\* first hand, and of the second only if the first is open; in the
\* single-hand branch getPinchDist reads tip 8.
processThrows(hands) ==
    IF Len(hands) = 0 THEN FALSE
    ELSE IF Len(hands) = 2
         THEN missing(hands[1], 8) \/ (isOpen(hands[1]) /\ missing(hands[2], 8))
         ELSE missing(hands[1], 8)

\* drawWireframe reads landmarks 0..20 of every hand.
drawThrows(hands) == \E i \in 1..Len(hands) : missing(hands[i], 20)

\* predict: one detection frame whose result carries a landmarks list.  An
\* exception leaves predict before its final requestAnimationFrame(predict).
predict(frames) ==
    /\ rafPending /\ isMounted /\ videoRef /\ landmarkerRef
    /\ \E hands \in frames :
        /\ fistRun < MaxRun \/ ~(Len(hands) = 1 /\ isFist(hands[1]))
        /\ dualRun < MaxRun \/ ~(Len(hands) = 2 /\ isOpen(hands[1]) /\ isOpen(hands[2]))
        /\ IF processThrows(hands)
           THEN /\ emitted' = <<>>
                /\ callbacks(<<>>)
                /\ UNCHANGED <<lastXRef, lastYRef, isPinchingRef, lastPinchTimeRef,
                               dualOpenFramesRef, fistStateFramesRef, now>>
                /\ UNCHANGED histVars
           ELSE /\ processGestures(hands)
                /\ observe(hands)
                /\ callbacks(emitted')
        /\ rafPending' = ~(processThrows(hands) \/ drawThrows(hands))
    /\ UNCHANGED <<isMounted, initStep, landmarkerRef, videoRef, streamRef, tracksLive>>
    /\ UNCHANGED <<transition, particles, growth, livePos>>
    /\ UNCHANGED sceneVars


-----------------------------------------------------------------------------
(* Claims about the transition engine *)

\* C1: after every render frame the transition value is within [0, 1], and
\* while the target is unchanged a frame never moves it away from the target
\* nor past the target.
C1_TransitionBoundedMonotone ==
    [][LuxuryTreeFrame =>
         LET tg == target(treeState)
         IN  /\ 0 <= transition' /\ transition' <= 100
             /\ Abs(tg - transition') <= Abs(tg - transition)
             /\ (transition <= tg => transition' <= tg)
             /\ (transition >= tg => transition' >= tg)]_vars

\* The live arrays that hold exactly the chaos coordinates.
ChaosArrays == [g \in Groups |-> [i \in 1..Count(g) |-> particles[g].chaos[i]]]

\* The live arrays that hold exactly the formed coordinates.
FormedArrays == [g \in Groups |-> [i \in 1..Count(g) |-> particles[g].pos[i]]]

\* The formed coordinates with each snow particle raised by its growth.
FormedArraysGrown(gr) ==
    [g \in Groups |->
        [i \in 1..Count(g) |->
            IF g = "snowBase"
            THEN <<particles[g].pos[i][1], particles[g].pos[i][2] + gr[i],
                   particles[g].pos[i][3]>>
            ELSE particles[g].pos[i]]]

\* C2 (as stated): a frame that leaves the transition at 0 writes the chaos
\* position of every particle, and one that leaves it at 1 writes the formed
\* position of every particle of every group, whatever the snow growth.
C2_LiveEqualsEndpoints ==
    [][LuxuryTreeFrame =>
         /\ (transition' = 0 => livePos' = ChaosArrays)
         /\ (transition' = 100 => livePos' = FormedArrays)]_vars

\* C2 (amended): at transition 0 every live position is the chaos position;
\* at transition 1 the foliage, trunk and ribbon positions are the formed
\* positions and a snow particle is at its formed position raised by the
\* growth it has accumulated.
C2_LiveEqualsEndpointsGrown ==
    [][LuxuryTreeFrame =>
         /\ (transition' = 0 => livePos' = ChaosArrays)
         /\ (transition' = 100 => livePos' = FormedArraysGrown(growth'))]_vars

\* C2 witness: a frame has written the arrays at transition 1 with snow that
\* has grown.
C2_Witness ==
    /\ transition = 100
    /\ \E i \in 1..Count("snowBase") : growth[i] > 0
    /\ livePos = FormedArraysGrown(growth)
    /\ livePos # FormedArrays

InitHand ==
    /\ TreeMounted({GenerationA})
    /\ SceneFixed
    /\ HandMounted
    /\ LoopRunning
    /\ AppMounted

\* A hand that stays where it is: fist or open, pinched or not.
StillFrames ==
    {<<>>} \cup TwoHandFrames
        \cup { <<HandOf(<<50, 50>>, t, p)>> : t \in {FistTips, OpenTips}, p \in PinchDists }

\* A hand that moves: open or pointing, pinched or not.
MovingFrames ==
    {<<>>} \cup { <<HandOf(w, t, p)>> :
                    w \in Wrists, t \in {OpenTips, PointTips}, p \in PinchDists }

NextGesture ==
    \/ predict(StillFrames)
    \/ Tick

\* The classifier watching a hand that makes fists and pinches.
SpecGesture == InitHand /\ [][NextGesture]_vars

NextNav == predict(MovingFrames)

\* The classifier watching a hand that moves across the image.
SpecNav == InitHand /\ [][NextNav]_vars

-----------------------------------------------------------------------------
(* App: the focus session *)

\* export const TRANSITION_DURATION = 1.5, in ms.
TRANSITION_DURATION == 1500

\* Frame deltas of the focus animation (ms): multiples of a quarter of the
\* transition duration, so that the progress is exact in hundredths.
MaxFocusSteps == 2

FocusDeltas == {375 * k : k \in 1..MaxFocusSteps}

\* The longest photo list that is followed.
MaxPhotos == 2

\* The most onDismiss invocations of one session that are counted.
MaxDismissCalls == 2

\* handlePhotoUpload(url): setPhotos(prev => [...prev, url])
handlePhotoUpload ==
    \E url \in Urls :
        /\ Len(photos) < MaxPhotos
        /\ photos' = Append(photos, url)
        /\ UNCHANGED <<focusedPhoto, pendingFocus, progress, isClosing, rotationY,
                       rotationVelocity, zoomTarget, dismissCalls, dismissRequested>>
        /\ UNCHANGED <<treeState, emitted>>
        /\ UNCHANGED notApp

\* PhotoOrnament onClick of the ornament at a list position:
\* onSelect() = onFocusPhoto(url) = setFocusedPhoto(url).
onSelect ==
    \E idx \in 1..Len(photos) :
        /\ pendingFocus' = <<photos[idx]>>
        /\ UNCHANGED <<photos, focusedPhoto, progress, isClosing, rotationY,
                       rotationVelocity, zoomTarget, dismissCalls, dismissRequested>>
        /\ UNCHANGED <<treeState, emitted>>
        /\ UNCHANGED notApp

\* OverlayUI onClearFocus: window.dispatchEvent(new Event('dismiss-photo'))
onClearFocus ==
    /\ isClosing' = dispatchDismiss(appNow).isClosing
    /\ dismissRequested' = (dismissRequested \/ focusedPhoto # NoPhoto)
    /\ UNCHANGED <<photos, focusedPhoto, pendingFocus, progress, rotationY,
                   rotationVelocity, zoomTarget, dismissCalls>>
    /\ UNCHANGED <<treeState, emitted>>
    /\ UNCHANGED notApp

\* delta / TRANSITION_DURATION, hundredths.
progressStep(delta) == RoundDiv(delta * 100, TRANSITION_DURATION)

\* onDismiss={() => setFocusedPhoto(null)}
onDismiss ==
    /\ dismissCalls < MaxDismissCalls
    /\ pendingFocus' = <<NoPhoto>>
    /\ dismissCalls' = dismissCalls + 1

\* FocusedPhoto useFrame((state, delta) => ...), while the component is
\* mounted: its progress and isClosing are those of its latest render.
FocusedPhotoFrame ==
    /\ focusedPhoto # NoPhoto
    /\ \E delta \in FocusDeltas :
         IF ~isClosing
         THEN /\ progress' = (IF progress < 100
                              THEN Min(100, progress + progressStep(delta))
                              ELSE progress)
              /\ UNCHANGED <<pendingFocus, dismissCalls>>
         ELSE IF progress > 0
              THEN /\ progress' = Max(0, progress - progressStep(delta))
                   /\ UNCHANGED <<pendingFocus, dismissCalls>>
              ELSE /\ onDismiss
                   /\ UNCHANGED progress
    /\ UNCHANGED <<photos, focusedPhoto, isClosing, rotationY, rotationVelocity,
                   zoomTarget, dismissRequested>>
    /\ UNCHANGED <<treeState, emitted>>
    /\ UNCHANGED notApp

\* The render that takes up the pending setFocusedPhoto update.  Scene
\* mounts FocusedPhoto when focusedPhoto becomes a url (fresh progress and
\* isClosing), keeps it while the url changes, and unmounts it on null.
render ==
    /\ pendingFocus # <<>>
    /\ focusedPhoto' = pendingFocus[1]
    /\ pendingFocus' = <<>>
    /\ IF pendingFocus[1] = NoPhoto
       THEN /\ progress' = 0 /\ isClosing' = FALSE /\ dismissRequested' = FALSE
            /\ UNCHANGED dismissCalls
       ELSE IF focusedPhoto = NoPhoto
            THEN /\ progress' = 0 /\ isClosing' = FALSE /\ dismissRequested' = FALSE
                 /\ dismissCalls' = 0
            ELSE UNCHANGED <<progress, isClosing, dismissCalls, dismissRequested>>
    /\ UNCHANGED <<photos, rotationY, rotationVelocity, zoomTarget>>
    /\ UNCHANGED <<treeState, emitted>>
    /\ UNCHANGED notApp

\* The callback batches a processed frame can hand to App: a pinch start, a
\* double pinch, a drag of a tenth of the image width either way, a zoom of
\* four tenths of the image height.
GestureBatches ==
    {<<EvPinch>>, <<EvDoublePinch>>, <<EvDrag(100)>>, <<EvDrag(-100)>>, <<EvZoom(600)>>}

\* predict as App sees it: a processed frame invokes a batch of callbacks.
predictCallbacks ==
    \E es \in GestureBatches :
        /\ emitted' = es
        /\ callbacks(es)
        /\ UNCHANGED notApp

InitApp ==
    /\ TreeMounted({GenerationA})
    /\ SceneFixed
    /\ HandMounted
    /\ LoopRunning
    /\ AppMounted

NextApp ==
    \/ handlePhotoUpload
    \/ onSelect
    \/ onClearFocus
    \/ FocusedPhotoFrame
    \/ render
    \/ predictCallbacks

\* The application with its photo list and focus session.
SpecApp == InitApp /\ [][NextApp]_vars

-----------------------------------------------------------------------------
(* Claims about the focus session *)

\* The photo that is focused once the pending update is rendered.
focusAfter(rendered, pending) == IF pending # <<>> THEN pending[1] ELSE rendered

\* A step in which the hand controller delivers a single-pinch event.
pinchArrives == predictCallbacks /\ emitted' = <<EvPinch>>

\* C3 (as stated): while a photo is focused, a select request (a delivered
\* single pinch or a click on a photo ornament) leaves the focused photo,
\* the session's progress and its closing flag unchanged.
C3_SelectWhileFocusedIsNoOp ==
    [][(onSelect \/ pinchArrives) /\ focusedPhoto # NoPhoto =>
         /\ focusAfter(focusedPhoto', pendingFocus') = focusAfter(focusedPhoto, pendingFocus)
         /\ UNCHANGED <<progress, isClosing>>]_vars

\* C4 (as stated): the dismiss callback is invoked at most once in a focus
\* session, however many frames run before the selection is cleared.
C4_DismissOncePerSession ==
    dismissCalls <= 1

\* A step in which the hand controller delivers a drag or a zoom event.
navArrives ==
    /\ predictCallbacks
    /\ emitted'[1][1] \in {"onDrag", "onZoom"}

\* C8 (as stated): while a photo is focused, a delivered drag or zoom event
\* changes neither the tree rotation nor the rotation velocity nor the zoom
\* target.
C8_NavIgnoredWhileFocused ==
    [][navArrives /\ focusedPhoto # NoPhoto =>
         UNCHANGED <<rotationY, rotationVelocity, zoomTarget>>]_vars

\* The list positions whose ornament is at minimal distance to the camera.
nearestPositions ==
    {i \in 1..Len(photos) :
        \A j \in 1..Len(photos) :
            ornamentDist(i - 1, rotationY) <= ornamentDist(j - 1, rotationY)}

\* C9 (as stated): a single pinch delivered while no photo is focused and
\* the photo list is not empty starts a session on a photo whose ornament is
\* at minimal distance to the camera.
C9_PinchFocusesNearest ==
    [][pinchArrives /\ focusedPhoto = NoPhoto /\ pendingFocus = <<>> /\ photos # <<>> =>
         \E i \in nearestPositions : pendingFocus' = <<photos[i]>>]_vars

\* C10: a single pinch delivered while the photo list is empty creates no
\* focus session, invokes no dismiss callback and leaves the list empty.
C10_PinchOnEmptyListIsNoOp ==
    [][pinchArrives /\ photos = <<>> =>
         /\ photos' = <<>>
         /\ UNCHANGED <<focusedPhoto, pendingFocus, progress, isClosing, dismissCalls>>]_vars

\* C10 witness: a single pinch has been delivered with the list empty, and
\* nothing is focused or about to be.
C10_Witness ==
    /\ emitted = <<EvPinch>>
    /\ photos = <<>>
    /\ focusedPhoto = NoPhoto
    /\ pendingFocus = <<>>

-----------------------------------------------------------------------------
(* Claims about the gesture classifier *)

\* C5 (as stated): when one hand has shown a fist for exactly
\* STABILITY_THRESHOLD consecutive processed frames, the form-tree event has
\* been emitted exactly once during those frames.
C5_FormAtThreshold ==
    fistRun = STABILITY_THRESHOLD => formsInRun = 1

\* The pinch-start event of the step, <<>> when the step starts no pinch.
startNow == SelectSeq(emitted', LAMBDA e : e \in {EvPinch, EvDoublePinch})

\* A step that processes a pinch start less than 450 ms after the previous one.
secondStart ==
    /\ predict(StillFrames)
    /\ Len(startNow) > 0
    /\ lastStart.time # NULL
    /\ now - lastStart.time < 450

\* C6 (as stated): of the two events emitted by two pinch starts less than
\* 450 ms apart, exactly one is a double-pinch and none is a single-pinch.
C6_OneDoubleZeroSingle ==
    [][secondStart =>
         LET pair == <<lastStart.event>> \o startNow
         IN  /\ Len(SelectSeq(pair, LAMBDA e : e = EvDoublePinch)) = 1
             /\ Len(SelectSeq(pair, LAMBDA e : e = EvPinch)) = 0]_vars

\* C6 (amended): a pinch start less than 450 ms after a pinch start that
\* emitted single-pinch emits double-pinch and no single-pinch, and clears
\* the pinch timestamp; one that follows a double-pinch emits single-pinch.
C6_SecondStartReclassified ==
    [][secondStart =>
         IF lastStart.event = EvPinch
         THEN startNow = <<EvDoublePinch>> /\ lastPinchTimeRef' = 0
         ELSE startNow = <<EvPinch>> /\ lastPinchTimeRef' = now]_vars

\* C6 witness: a pinch start has just been reclassified as a double-pinch,
\* some time after the start that opened the window.
C6_Witness ==
    /\ emitted = <<EvDoublePinch>>
    /\ lastStart = [time |-> now, event |-> EvDoublePinch]
    /\ lastPinchTimeRef = 0
    /\ now > MountTime

\* C7: after a processed frame without hands both stability counters are 0,
\* the pinch flag is down and the last reference position is null.
C7_NoHandsResets ==
    Len(cleared) = 1 =>
        /\ fistStateFramesRef = 0
        /\ dualOpenFramesRef = 0
        /\ isPinchingRef = FALSE
        /\ lastXRef = NULL
        /\ lastYRef = NULL

\* C7 witness: the frame without hands found both counters running, the
\* pinch flag up and a reference position, and has cleared them all.
C7_Witness ==
    /\ Len(cleared) = 1
    /\ cleared[1].fist > 0
    /\ cleared[1].dual > 0
    /\ cleared[1].pinching
    /\ cleared[1].x # NULL
    /\ cleared[1].y # NULL
    /\ fistStateFramesRef = 0
    /\ dualOpenFramesRef = 0
    /\ ~isPinchingRef
    /\ lastXRef = NULL
    /\ lastYRef = NULL

\* A step that processes a frame whose callbacks include e.
emits(e) ==
    /\ predict(StillFrames)
    /\ \E i \in 1..Len(emitted') : emitted'[i] = e

\* C11 (as stated): a release-chaos event emitted while the tree state is
\* FORMED leaves the tree state CHAOS, and a form-tree event emitted while it
\* is CHAOS leaves it FORMED.
C11_GesturesSetTreeState ==
    [][/\ (emits(EvChaos) /\ treeState = "FORMED" => treeState' = "CHAOS")
       /\ (emits(EvForm) /\ treeState = "CHAOS" => treeState' = "FORMED")]_vars

-----------------------------------------------------------------------------
(* The focus session with render frames and renders that keep coming *)

\* useFrame callbacks run on every animation frame, and a pending state
\* update is eventually rendered.
SpecAppLive ==
    /\ InitApp
    /\ [][NextApp]_vars
    /\ WF_vars(FocusedPhotoFrame)
    /\ WF_vars(render)

\* C12 (as stated): once a dismiss has been requested (by a delivered double
\* pinch or by the close button) during a focus session, the focus selection
\* is eventually cleared.
C12_DismissEventuallyClears ==
    dismissRequested ~> (focusedPhoto = NoPhoto)

-----------------------------------------------------------------------------
(* HandController: the effect that starts and stops the detection loop *)

\* Everything but the state of the effect.
notLoop == <<treeVars, handVars, histVars, appVars, sceneVars>>

\* await FilesetResolver.forVisionTasks(...) resolves.
visionLoaded ==
    /\ initStep = "vision"
    /\ initStep' = "landmarker"
    /\ UNCHANGED <<isMounted, landmarkerRef, videoRef, streamRef, tracksLive, rafPending>>
    /\ UNCHANGED notLoop

\* await HandLandmarker.createFromOptions(...) resolves:
\* if (isMounted) setupCamera(), which returns at once without a video
\* element and otherwise waits for getUserMedia.
landmarkerCreated ==
    /\ initStep = "landmarker"
    /\ landmarkerRef' = TRUE
    /\ initStep' = (IF isMounted /\ videoRef THEN "camera" ELSE "idle")
    /\ UNCHANGED <<isMounted, videoRef, streamRef, tracksLive, rafPending>>
    /\ UNCHANGED notLoop

\* One of the awaited promises rejects: the catch block logs the error.
initRejected ==
    /\ initStep \in {"vision", "landmarker", "camera"}
    /\ initStep' = "failed"
    /\ UNCHANGED <<isMounted, landmarkerRef, videoRef, streamRef, tracksLive, rafPending>>
    /\ UNCHANGED notLoop

\* await navigator.mediaDevices.getUserMedia(...) resolves with a stream:
\* streamRef.current = stream, then videoRef.current.srcObject = stream, which
\* throws into the catch block if the video element is gone.
cameraGranted ==
    /\ initStep = "camera"
    /\ streamRef' = TRUE
    /\ tracksLive' = TRUE
    /\ initStep' = (IF videoRef THEN "metadata" ELSE "failed")
    /\ UNCHANGED <<isMounted, landmarkerRef, videoRef, rafPending>>
    /\ UNCHANGED notLoop

\* onloadedmetadata: videoRef.current?.play()
loadedMetadata ==
    /\ initStep = "metadata"
    /\ initStep' = (IF videoRef THEN "play" ELSE "idle")
    /\ UNCHANGED <<isMounted, landmarkerRef, videoRef, streamRef, tracksLive, rafPending>>
    /\ UNCHANGED notLoop

\* play().then: if (isMounted) { setIsActive(true); requestAnimationFrame(predict) }
played ==
    /\ initStep = "play"
    /\ initStep' = "done"
    /\ rafPending' = (IF isMounted THEN TRUE ELSE rafPending)
    /\ UNCHANGED <<isMounted, landmarkerRef, videoRef, streamRef, tracksLive>>
    /\ UNCHANGED notLoop

\* The unmount: React detaches the refs of the video and canvas elements and
\* runs the cleanup: isMounted = false; streamRef.current?.getTracks().forEach(stop)
cleanup ==
    /\ isMounted
    /\ isMounted' = FALSE
    /\ videoRef' = FALSE
    /\ tracksLive' = (IF streamRef THEN FALSE ELSE tracksLive)
    /\ UNCHANGED <<initStep, landmarkerRef, streamRef, rafPending>>
    /\ UNCHANGED notLoop

\* predict when it processes nothing: after the unmount it returns without
\* rescheduling; with the video not ready (readyState < 2) or a result
\* without a landmarks list it only reschedules itself.
predictSkip ==
    /\ rafPending
    /\ rafPending' = (IF ~isMounted \/ ~videoRef \/ ~landmarkerRef THEN isMounted ELSE TRUE)
    /\ UNCHANGED <<isMounted, initStep, landmarkerRef, videoRef, streamRef, tracksLive>>
    /\ UNCHANGED notLoop

\* What the camera shows while the effect is followed: nothing, a fist, a
\* pinching open hand, and frames with a truncated hand.
LoopFrames ==
    { <<>>,
      <<HandOf(<<50, 50>>, FistTips, 20)>>,
      <<HandOf(<<50, 50>>, OpenTips, 5)>>,
      <<Truncated(HandOf(<<50, 50>>, OpenTips, 5))>>,
      <<HandOf(<<30, 50>>, FistTips, 20), Truncated(HandOf(<<70, 50>>, OpenTips, 20))>> }

InitLoop ==
    /\ TreeMounted({GenerationA})
    /\ SceneFixed
    /\ HandMounted
    /\ LoopMounted
    /\ AppMounted

NextLoop ==
    \/ visionLoaded
    \/ landmarkerCreated
    \/ initRejected
    \/ cameraGranted
    \/ loadedMetadata
    \/ played
    \/ cleanup
    \/ predictSkip
    \/ predict(LoopFrames)

\* The hand controller from its mount to its unmount.
SpecLoop == InitLoop /\ [][NextLoop]_vars

\* C13 (as stated): once the hand controller is torn down, no step schedules
\* a detection frame and no acquired camera stream has running tracks.
C13_TeardownStopsLoopAndCamera ==
    [][~isMounted' => /\ ~tracksLive'
                      /\ (rafPending' => rafPending)]_vars

\* A step that processes a frame with a truncated hand.
malformedFrame ==
    predict({hands \in LoopFrames : drawThrows(hands)})

\* C14 (as stated): a frame with a malformed hand is handled like a frame
\* without hands: the classifier is reset, no callback is invoked and the
\* next detection frame is scheduled.
C14_MalformedFrameIsNoHands ==
    [][malformedFrame =>
         /\ emitted' = <<>>
         /\ isPinchingRef' = FALSE /\ lastXRef' = NULL /\ lastYRef' = NULL
         /\ dualOpenFramesRef' = 0 /\ fistStateFramesRef' = 0
         /\ rafPending']_vars

-----------------------------------------------------------------------------
(* Claims about the particle arrays *)

\* Every array of a group holds one coordinate triple per particle.
arraysSized(p, live) ==
    \A g \in Groups :
        /\ Len(p[g].chaos) = Len(p[g].pos)
        /\ Len(live[g]) = Len(p[g].pos)
        /\ \A i \in 1..Len(p[g].pos) :
              Len(p[g].pos[i]) = 3 /\ Len(p[g].chaos[i]) = 3 /\ Len(live[g][i]) = 3

\* C15: the formed and chaos arrays of every group have one triple per
\* particle, a render frame leaves them exactly as they were generated at
\* mount, and what it changes is the transition, the live position buffers
\* and the snow growth only.
C15_GeneratedArraysFixed ==
    [][LuxuryTreeFrame =>
         /\ particles' = particles
         /\ arraysSized(particles', livePos')
         /\ Len(growth') = Len(particles.snowBase.pos)
         /\ UNCHANGED <<treeState, notTree>>]_vars

\* C15 witness: frames have written live positions and grown snow, and the
\* generated arrays are one of the generator's outcomes, properly sized.
C15_Witness ==
    /\ livePos # ZeroArrays
    /\ \E i \in 1..Count("snowBase") : growth[i] > 0
    /\ particles \in Generations
    /\ arraysSized(particles, livePos)

-----------------------------------------------------------------------------
(* FocusedPhoto: the target size *)

\* <PerspectiveCamera makeDefault position={[0, 5, 20]} fov={45} />
fov == 45

\* const FOCUS_DIST = 8
FOCUS_DIST == 8

\* aspect = (img && img.width) ? img.width / img.height : 1, thousandths.
aspect(img) == IF img[1] # 0 THEN RoundDiv(1000 * img[1], img[2]) ELSE 1000

\* viewportHeightAtDist = 2 * Math.tan(fovRad / 2) * FOCUS_DIST, thousandths.
viewportHeightAtDist ==
    LET half == RoundDiv(fov * Pi, 360)
    IN  RoundDiv(2 * FOCUS_DIST * 1000 * Sin(half), Cos(half))

\* viewportWidthAtDist = viewportHeightAtDist * (size.width / size.height)
viewportWidthAtDist(sz) == RoundDiv(viewportHeightAtDist * sz[1], sz[2])

\* maxH = viewportHeightAtDist * 0.5
maxH == RoundDiv(viewportHeightAtDist * 50, 100)

\* maxW = viewportWidthAtDist * 0.33
maxW(sz) == RoundDiv(viewportWidthAtDist(sz) * 33, 100)

\* The size of the variant: four fifths of the frustum height at distance
\* 4.5, times 0.5 for a wide image and 0.8 otherwise; the width follows from
\* the aspect.
targetScale_variant(sz, asp) ==
    LET half == RoundDiv(fov * Pi, 360)
        frustumHeightAtDistance == RoundDiv(2 * 4500 * Sin(half), Cos(half))
        baseFocusHeight == RoundDiv(frustumHeightAtDistance * 4, 5)
        finalFocusHeight == RoundDiv(baseFocusHeight * (IF asp > 1000 THEN 5 ELSE 8), 10)
    IN  [w |-> RoundDiv(finalFocusHeight * asp, 1000), h |-> finalFocusHeight]

\* targetScale (useMemo on camera, size and aspect): the height limit first,
\* then the fit to the width limit when the image is too wide.
targetScale(sz, asp) ==
    LET finalH == maxH
        finalW == RoundDiv(finalH * asp, 1000)
    IN  IF finalW > maxW(sz)
        THEN [w |-> maxW(sz), h |-> RoundDiv(maxW(sz) * 1000, asp)]
        ELSE [w |-> finalW, h |-> finalH]

-----------------------------------------------------------------------------
(* The scene: mounts, uploads, selections and resizes *)

\* The window is resized: useThree().size changes.
resize ==
    /\ \E sz \in Sizes \ {size} : size' = sz
    /\ UNCHANGED <<ornaments, image, previousOrnaments>>
    /\ UNCHANGED <<treeVars, handVars, histVars, appVars, loopVars>>

\* The page is loaded again: every component mounts afresh, LuxuryTree's
\* useMemo callbacks run again and draw anew.  The window and the files keep
\* their sizes; HandController is at its mount state throughout.
remount ==
    /\ ornaments' \in OrnamentLists
    /\ previousOrnaments' = ornaments
    /\ treeState' = "CHAOS"
    /\ transition' = 0
    /\ particles' \in Generations
    /\ growth' = [i \in 1..Count("snowBase") |-> 0]
    /\ livePos' = ZeroArrays
    /\ photos' = <<>>
    /\ focusedPhoto' = NoPhoto
    /\ pendingFocus' = <<>>
    /\ progress' = 0
    /\ isClosing' = FALSE
    /\ rotationY' = 0
    /\ rotationVelocity' = 0
    /\ zoomTarget' = 2000
    /\ dismissCalls' = 0
    /\ dismissRequested' = FALSE
    /\ UNCHANGED <<size, image>>
    /\ UNCHANGED <<handVars, histVars, loopVars>>

InitScene ==
    /\ TreeMounted(Generations)
    /\ HandMounted
    /\ LoopRunning
    /\ AppMounted
    /\ SceneMounted(OrnamentLists, Sizes, Images)

NextScene ==
    \/ handlePhotoUpload
    \/ onSelect
    \/ render
    \/ resize
    \/ remount

SpecScene == InitScene /\ [][NextScene]_vars

C17_TargetSizeBounded ==
    focusedPhoto # NoPhoto =>
        LET asp == aspect(image[focusedPhoto])
            ts == targetScale(size, asp)
        IN  /\ ts.h <= maxH
            /\ ts.w <= maxW(size)
            /\ RoundDiv(maxH * asp, 1000) > maxW(size) => ts.w = maxW(size)
            /\ ts.h = maxH \/ ts.w = maxW(size)
            /\ Abs(1000 * ts.w - ts.h * asp) <= Max(500, (asp + 1) \div 2)

\* C17 witness: a wide image is focused in a portrait window, and the width
\* limit decides the size.
C17_Witness ==
    /\ focusedPhoto # NoPhoto
    /\ image[focusedPhoto] = <<160, 90>>
    /\ size = <<390, 844>>
    /\ targetScale(size, aspect(image[focusedPhoto])).w = maxW(size)
    /\ targetScale(size, aspect(image[focusedPhoto])).h < maxH

-----------------------------------------------------------------------------
(* Claims about selection and dismissal *)

\* The maximum acceptable world distance of a pinch selection, hundredths:
\* the lower of the documented thresholds (bestWorldDist < 18 in the variant
\* of src/unnamed/part_000).
MAX_WORLD_DIST == 1800

\* The squared distance to the camera of the candidate the selection picks.
bestWorldDistSquared(list, rot) == ornamentDist(nearestIndex(list, rot) - 1, rot)

doublePinchArrives == predictCallbacks /\ emitted' = <<EvDoublePinch>>

\* C19: a dismiss request (a delivered double pinch, or the close-focus
\* callback) made while no photo is focused changes nothing of the
\* application: no session is created, and the photo list, the tree state,
\* the rotation and the zoom target stay as they are.
C19_DismissWithoutSessionIsNoOp ==
    [][(onClearFocus \/ doublePinchArrives) /\ focusedPhoto = NoPhoto =>
         /\ UNCHANGED <<photos, focusedPhoto, pendingFocus, progress, isClosing,
                        dismissCalls, dismissRequested>>
         /\ UNCHANGED <<treeState, rotationY, rotationVelocity, zoomTarget>>]_vars

\* C19 witness: a double pinch has been delivered with photos on the tree
\* and none focused, and no session exists or is about to.
C19_Witness ==
    /\ emitted = <<EvDoublePinch>>
    /\ photos # <<>>
    /\ focusedPhoto = NoPhoto
    /\ pendingFocus = <<>>
    /\ ~isClosing
    /\ progress = 0

-----------------------------------------------------------------------------
(* Claims about reaching the target *)

\* The snap distance, in the hundredths the transition is kept in.
SnapEpsilon == 1

\* C20 (as stated): a render frame that finds the transition off its target
\* by no more than the snap distance, the tree state staying as it is, sets
\* the transition to the target.
C20_SnapsWithinEpsilon ==
    [][(/\ treeState' = treeState
        /\ transition # target(treeState)
        /\ Abs(transition - target(treeState)) <= SnapEpsilon) =>
            transition' = target(treeState)]_vars

-----------------------------------------------------------------------------
(* Claims about debouncing and the single-hand gestures *)

\* The last processed frame invoked the callback e.
invoked(e) == \E i \in 1..Len(emitted) : emitted[i] = e

\* C21 (as stated): when a frame emits the form-tree event, the frames up to
\* and including it have shown one hand as a fist for at least
\* STABILITY_THRESHOLD consecutive processed frames, and when it emits the
\* release-chaos event they have shown two open hands for at least that
\* many: any other frame in between restarts the count.
C21_EmittedAfterConsecutiveHold ==
    /\ invoked(EvForm) => fistRun >= STABILITY_THRESHOLD
    /\ invoked(EvChaos) => dualRun >= STABILITY_THRESHOLD

\* A step that processes a frame showing one open hand that is neither a
\* fist nor pinching.
openHandFrame ==
    predict({f \in MovingFrames :
                /\ Len(f) = 1
                /\ isOpen(f[1])
                /\ ~isFist(f[1])
                /\ getPinchDist(f[1]) >= 10})

\* The last processed frame invoked the callback named name.
invokedNamed(es, name) == \E i \in 1..Len(es) : es[i][1] = name

\* C22 (as stated): a frame showing one open hand, neither fist nor
\* pinching, with a reference position from the frame before, emits a drag
\* and no zoom when the horizontal delta is the larger, and a zoom and no
\* drag when the vertical delta is the larger.
C22_DominantAxisDecides ==
    [][(openHandFrame /\ lastXRef # NULL /\ lastYRef # NULL) =>
         LET dx == lastXRef' - lastXRef
             dy == lastYRef' - lastYRef
         IN  /\ Abs(dx) > Abs(dy) =>
                    invokedNamed(emitted', "onDrag") /\ ~invokedNamed(emitted', "onZoom")
             /\ Abs(dy) > Abs(dx) =>
                    invokedNamed(emitted', "onZoom") /\ ~invokedNamed(emitted', "onDrag")]_vars

-----------------------------------------------------------------------------
(* Claims about the snow growth and the zoom target *)

\* C23: the growth accumulator of every snow particle is 0 at mount, and in
\* every step it does not decrease, is not negative, does not exceed the
\* particle's proximity-weighted maximum height, and changes only if the
\* transition value the frame computes exceeds 0.7.
C23_GrowthMonotoneAndCapped ==
    /\ \A i \in 1..Count("snowBase") : growth[i] = 0
    /\ [][\A i \in 1..Count("snowBase") :
            /\ growth'[i] >= growth[i]
            /\ growth'[i] >= 0
            /\ growth'[i] <= driftMaxHeight(i)
            /\ growth'[i] # growth[i] => transition' > 70]_vars

\* C23 witness: a snow particle has grown to its maximum height, and the
\* tree has gone back below the growth threshold with the snow kept.
C23_Witness ==
    /\ growth[1] = driftMaxHeight(1)
    /\ growth[1] > 0
    /\ transition <= 70
    /\ treeState = "CHAOS"

\* Zoom arguments (thousandths) beyond what one frame of hand movement
\* yields: a hundred image heights either way, and none.
ZoomSamples == {-100000, -1500, 0, 1500, 100000}

\* C24: the zoom target is within [10, 35] in every state, and stays there
\* under a further zoom event of any of the sampled magnitudes and signs.
C24_ZoomTargetInRange ==
    /\ zoomTarget >= 1000 /\ zoomTarget <= 3500
    /\ \A dy \in ZoomSamples :
        LET z == onZoom(closure, appNow, dy).zoomTarget
        IN  z >= 1000 /\ z <= 3500

\* C24 witness: zoom events have driven the target to its upper limit, the
\* last one being cut off there.
C24_Witness ==
    /\ invokedNamed(emitted, "onZoom")
    /\ zoomTarget = 3500

-----------------------------------------------------------------------------
(* Claims about the callbacks and the pinch events *)

\* C25 (as stated): a frame's callbacks leave the application as they would
\* when acting on the tree state, focused photo and photo list of the
\* latest render.
C25_CallbacksSeeCurrentState ==
    [][predictCallbacks =>
         LET a == invokeAll(emitted', closure_latest, appNow)
         IN  /\ treeState' = a.treeState
             /\ pendingFocus' = a.pendingFocus
             /\ isClosing' = a.isClosing
             /\ rotationY' = a.rotationY
             /\ rotationVelocity' = a.rotationVelocity
             /\ zoomTarget' = a.zoomTarget]_vars

\* C26 (as stated): when the last processed frame showed one hand as a
\* fist, it invoked neither the single-pinch nor the double-pinch callback.
C26_FistEmitsNoPinch ==
    fistRun > 0 => ~invoked(EvPinch) /\ ~invoked(EvDoublePinch)

\* One hand held pinched in every frame, open or closed, alone or with a
\* second hand in view.
HeldFrames ==
    { <<HandOf(<<50, 50>>, t, 5)>> : t \in {OpenTips, FistTips} }
        \cup { <<HandOf(<<50, 50>>, OpenTips, 5), HandOf(<<70, 50>>, t, 20)>> :
                 t \in {OpenTips, FistTips} }

NextHold ==
    \/ predict(HeldFrames)
    \/ Tick

\* The classifier watching a pinch that is held.
SpecHold == InitHand /\ [][NextHold]_vars

\* C27 (as stated): while the hand stays pinched, once a frame has emitted
\* the pinch's event (single or double) no later frame emits another,
\* whether or not a second hand has been in view in between.
C27_OneEventPerHeldPinch ==
    [][lastStart.time # NULL => lastStart' = lastStart]_vars

-----------------------------------------------------------------------------
(* Claims about the reference position *)

\* A hand that moves without pinching, open or pointing, with frames
\* without hands and frames with two hands in between.
ReferenceFrames ==
    {<<>>} \cup TwoHandFrames
        \cup { <<HandOf(w, t, 20)>> : w \in Wrists, t \in {OpenTips, PointTips} }

NextReference == predict(ReferenceFrames)

\* The classifier watching a hand that moves while hands come and go.
SpecReference == InitHand /\ [][NextReference]_vars

\* The argument of the callback named name among es, else NULL.
argumentOf(es, name) ==
    IF invokedNamed(es, name)
    THEN es[CHOOSE i \in 1..Len(es) : es[i][1] = name][2]
    ELSE NULL

\* C28: a frame that emits a drag or a zoom shows a single hand and follows
\* a processed frame that showed a single hand, and the event's argument is
\* computed from the wrist position of that frame: the first single-hand
\* frame after a frame without hands or with two hands emits neither.
C28_DeltaFromPrecedingFrame ==
    [][(invokedNamed(emitted', "onDrag") \/ invokedNamed(emitted', "onZoom")) =>
         /\ Len(lastFrame'[1]) = 1
         /\ lastFrame # <<>>
         /\ Len(lastFrame[1]) = 1
         /\ LET prev == lastFrame[1][1].wrist
                cur == lastFrame'[1][1].wrist
            IN  /\ invokedNamed(emitted', "onDrag") =>
                      argumentOf(emitted', "onDrag") = -(cur[1] - prev[1]) * 10
                /\ invokedNamed(emitted', "onZoom") =>
                      argumentOf(emitted', "onZoom") = (cur[2] - prev[2]) * 15]_vars

\* C28 witness: a pointing hand, which drags whenever it has a reference
\* position, has just been processed right after a frame with two open
\* hands, and no callback was invoked.
C28_Witness ==
    /\ lastFrame # <<>>
    /\ Len(lastFrame[1]) = 1
    /\ isPointing(lastFrame[1][1])
    /\ emitted = <<>>
    /\ dualOpenFramesRef > 0
    /\ cleared = <<>>

-----------------------------------------------------------------------------
(* Claims about the focused photo *)

\* The list positions of the photo ornaments rendered with
\* isFocused = (focusedPhoto === url), that is with visible = false.
hiddenOrnaments == {i \in 1..Len(photos) : photos[i] = focusedPhoto}

\* photos.indexOf(x): the 0-based position of the first occurrence, else -1.
indexOf(list, x) ==
    IF \E i \in 1..Len(list) : list[i] = x
    THEN (CHOOSE i \in 1..Len(list) :
            list[i] = x /\ \A j \in 1..(i - 1) : list[j] # x) - 1
    ELSE -1

\* C29 (as stated): while a photo is focused exactly one photo ornament is
\* hidden, and the position the focused photo starts from is the position of
\* the hidden ornament, the one that was selected.
C29_OneHiddenAtStart ==
    focusedPhoto # NoPhoto =>
        /\ Cardinality(hiddenOrnaments) = 1
        /\ \A i \in hiddenOrnaments :
             startLocal(indexOf(photos, focusedPhoto)) = PhotoOrnamentPosition(i - 1)

\* The eased blend factor of FocusedPhoto's frame, in millionths, for a
\* progress in hundredths:
\* t = isClosing ? Math.pow(progress, 3) : 1 - Math.pow(1 - progress, 3)
easedBlend(p, closing) ==
    IF closing THEN p * p * p ELSE 1000000 - (100 - p) * (100 - p) * (100 - p)

\* C30 (as stated): a step that switches a focus session from opening to
\* closing leaves the eased blend factor of the pose as it was before the
\* switch, at every progress value.
C30_BlendContinuousAtSwitch ==
    [][(focusedPhoto # NoPhoto /\ focusedPhoto' = focusedPhoto
          /\ ~isClosing /\ isClosing')
         => easedBlend(progress', isClosing') = easedBlend(progress, isClosing)]_vars

====
